---------------------------- MODULE Spec2Model ----------------------------
(***************************************************************************)
(* A model of the rsync protocol-27 pull client: the text handshake, the   *)
(* file-list hand-over, and the generator / receiver pair that runs over   *)
(* the two halves of one connection against a remote sender.              *)
(*                                                                         *)
(* The wire is modelled at the level of the values the client reads and   *)
(* writes (a line, an i32, a SumHead, a token, a digest), not of bytes.    *)
(* File contents are sequences of small numbers standing for bytes.       *)
(***************************************************************************)
EXTENDS Integers, Sequences, FiniteSets, TLC

(***************************************************************************)
(* Bounds of the model.                                                    *)
(***************************************************************************)
\* Messages each direction of the connection buffers before a write blocks.
BufCap == 1
\* MOTD lines (other than OK / @ERROR / AUTHREQD) the server sends.
MaxMotd == 1
\* Records of a file list the decoder is followed through.
MaxEntries == 2
\* The largest inherited-name length a record carries.
MaxInherit == 2
\* Files the server sends again, unrequested, after its first sentinel.
MaxRedo == 1
\* Bytes one step of tokio::io::copy moves (the BufWriter's chunk).
CopyChunk == 2
\* The clock: times are counted in ticks of which TicksPerSec make a second,
\* and the session runs within MaxTime ticks.
MaxTime == 2
TicksPerSec == 2

(***************************************************************************)
(* Program constants.                                                      *)
(***************************************************************************)
\* `if remote_protocol < 27`
MIN_PROTOCOL == 27
\* Width of the MD4 stand-in: digests are numbers below DigestMod.
DigestMod == 7

(***************************************************************************)
(* Pure helpers.                                                           *)
(***************************************************************************)
Min(a, b) == IF a < b THEN a ELSE b

\* Vec<u8>::cmp : lexicographic comparison of byte strings.
RECURSIVE NameLess(_, _)
NameLess(x, y) ==
  IF y = <<>> THEN FALSE
  ELSE IF x = <<>> THEN TRUE
  ELSE IF Head(x) # Head(y) THEN Head(x) < Head(y)
  ELSE NameLess(Tail(x), Tail(y))

\* i32::to_le_bytes of a seed.
to_le_bytes(s) ==
  << s % 256, (s \div 256) % 256, (s \div 65536) % 256, (s \div 16777216) % 256 >>

\* The MD4 hasher: update() absorbs the bytes in order, finalize() yields
\* the digest.  MD4 itself is an external crate; it is modelled as an
\* order-sensitive fold so that equal inputs give equal digests and
\* reordered or altered inputs (almost always) do not.
RECURSIVE hasher_update(_, _)
hasher_update(h, bytes) ==
  IF bytes = <<>> THEN h
  ELSE hasher_update((h * 3 + Head(bytes) + 1) % DigestMod, Tail(bytes))

Md4Seeded(s, bytes) == hasher_update(hasher_update(0, to_le_bytes(s)), bytes)


(***************************************************************************)
(* Data.                                                                   *)
(***************************************************************************)
\* unix_mode::is_dir / is_file / is_symlink : the file-type bits of a mode.
is_dir(mode) == (mode \div 4096) % 16 = 4
is_file(mode) == (mode \div 4096) % 16 = 8
is_symlink(mode) == (mode \div 4096) % 16 = 10

\* Duration::as_secs of a SystemTime since the epoch, and the SystemTime
\* UNIX_EPOCH + Duration::new(secs, 0) an entry's mtime is built as.
as_secs(t) == t \div TicksPerSec
from_secs(secs) == secs * TicksPerSec

\* The times the filesystem may stamp a file with during the session.
Clock == from_secs(1)..(from_secs(1) + MaxTime - 1)

\* A FileEntry as recv_file_entry returns it: idx is i32::MAX until
\* recv_file_list numbers the sorted list.
FileEntry(name, len, modify_time, mode) ==
  [name |-> name, len |-> len, modify_time |-> modify_time, mode |-> mode,
   idx |-> 2147483647]

\* The entry records a server sends, in wire order, before the client sorts.
RawLists ==
  { <<>>,
    << FileEntry(<<2>>, 2, from_secs(1), 33188), FileEntry(<<1>>, 3, from_secs(2), 33188) >>,
    << FileEntry(<<1>>, 0, from_secs(1), 16877), FileEntry(<<2>>, 2, from_secs(1), 33188) >>,
    << FileEntry(<<1>>, 2, from_secs(1), 33188), FileEntry(<<1>>, 3, from_secs(2), 33188) >>,
    << FileEntry(<<2>>, 0, from_secs(1), 41471) >>,
    << FileEntry(<<2>>, 4096, from_secs(1), 33188) >> }

Names == {<<1>>, <<2>>}

\* What a path under opts.dest holds.
Absent == [kind |-> "absent", content |-> <<>>, mtime |-> 0]
RegFile(content, mtime) == [kind |-> "file", content |-> content, mtime |-> mtime]
Dir(mtime) == [kind |-> "dir", content |-> <<>>, mtime |-> mtime]

\* The destination trees a session may start on.
InitialDests ==
  { [n \in Names |-> Absent],
    [n \in Names |-> IF n = <<1>> THEN RegFile(<<1, 2, 1>>, from_secs(2) + 1)
                                   ELSE RegFile(<<2, 2>>, from_secs(2))],
    [n \in Names |-> IF n = <<1>> THEN RegFile(<<1, 2>>, from_secs(2)) ELSE Dir(from_secs(1))] }

\* SumHead::default()
ZeroHead == [checksum_count |-> 0, block_len |-> 0, checksum_len |-> 0, remainder_len |-> 0]

\* A value the client wrote: a text line, an i32, or a SumHead with its
\* block checksums.
WLine(by, s) == [by |-> by, kind |-> "line", line |-> s, n |-> 0, head |-> ZeroHead, sums |-> <<>>]
WInt(by, n) == [by |-> by, kind |-> "i32", line |-> "", n |-> n, head |-> ZeroHead, sums |-> <<>>]

\* What the server sends once the transfer runs: a file (its index echoed,
\* a SumHead, the tokens ending with the Done token, the whole-file
\* digest), a bare index of -1, or an rsync-long.
FileMsg(idx, head, tokens, digest) ==
  [kind |-> "file", idx |-> idx, head |-> head, tokens |-> tokens, digest |-> digest, v |-> 0]
SentinelMsg == FileMsg(-1, ZeroHead, <<>>, 0)
LongMsg(v) ==
  [kind |-> "long", idx |-> 0, head |-> ZeroHead, tokens |-> <<>>, digest |-> 0, v |-> v]

\* Tokens as they travel: the signed 32-bit word, and for a literal run the
\* bytes that follow it.
DataTok(bytes) == [tok |-> Len(bytes), bytes |-> bytes]
CopiedTok(k) == [tok |-> -(k + 1), bytes |-> <<>>]
DoneTok == [tok |-> 0, bytes |-> <<>>]

\* Server greetings: the text after the optional "@RSYNCD: " prefix is a
\* sequence of the numbers scan_fmt can read ("26.0" is <<26, 0>>, "30" is
\* <<30>>, "hello" is <<>>).
Greetings ==
  { [prefix |-> TRUE, version |-> <<26, 0>>],
    [prefix |-> TRUE, version |-> <<27, 0>>],
    [prefix |-> TRUE, version |-> <<30>>],
    [prefix |-> TRUE, version |-> <<>>],
    [prefix |-> FALSE, version |-> <<27, 0>>] }

\* The lines a server may send while the client drains the MOTD, each cut
\* into the pieces str::starts_with can tell apart.  The empty line is what
\* read_line leaves when the stream has ended.
EofLine == <<>>
MotdLines ==
  { <<"@RSYNCD: ", "OK">>,
    <<"@ERROR", ": unknown module">>,
    <<"@RSYNCD: ", "AUTHREQD ", "challenge">>,
    <<"@RSYNCD: ", "AUTHREQD">>,
    <<"welcome">>,
    EofLine }

Seeds == {0, 1}

VARIABLES
  mainPc,      \* where start_socket_client stands
  url,         \* [module, path] of the request
  sent,        \* everything the client wrote to the connection, in order
  srvRead,     \* how many elements of sent the server has consumed
  motdSeen,    \* MOTD lines the drain loop has printed
  line,        \* the line the drain loop read last
  lastRead,    \* the last value read from the connection: what it was, and whether through the envelope
  list,        \* recv_file_list: the entries decoded so far, in wire order
  name_scratch,\* recv_file_list: the name of the last entry decoded
  rec,         \* recv_file_entry: the header of the last record read
  file_len,    \* generate_and_send_sums: the basis file's length
  sum_head,    \* generate_and_send_sums: the SumHead written, ZeroHead before
  remaining,   \* generate_and_send_sums: bytes of the basis not yet summed
  block_i,     \* generate_and_send_sums: blocks summed so far
  protocol,    \* the server's major protocol version, 0 until its greeting is parsed
  rxEof,       \* the server has closed its sending side
  enveloped,   \* reads go through EnvelopeRead
  seed,        \* the checksum seed
  file_list,   \* the sorted, numbered file list
  dest,        \* the tree under opts.dest: name -> Absent / RegFile / Dir
  genPc,       \* generate_task: "idle", "entries", "phase2", "done", "err", "cancelled"
  genPos,      \* number of entries generate_task has handled
  s2c,         \* messages in flight from the server to the client
  srvOut,      \* messages the server has prepared and not yet sent
  srvSentinels,\* number of -1 the server has read from the generator
  srvRedo,     \* number of unrequested files the server has sent
  srvSent,     \* every index the server has sent, in order
  recvPc,      \* recv_task: "idle", "next", "create", "copy", "mtime", "done", "err", "panic", "cancelled"
  phase,       \* recv_task's phase counter
  recvIdx,     \* index of the file recv_task is working on
  recvMsg,     \* what the server sent for that file: index, SumHead, tokens, digest
  target_file, \* content of the temporary file
  copied,      \* bytes of target_file tokio::io::copy has written to dest
  processed,   \* every index recv_task took a file for, in order
  before,      \* what the destination path held when the file's index was read
  statsRead,   \* statistics read so far
  result       \* what start_socket_client returned: "running", "ok", an error kind, "panic"

vars ==
  << mainPc, url, sent, srvRead, motdSeen, line, lastRead, list, name_scratch, rec,
     file_len, sum_head, remaining, block_i, protocol, rxEof, enveloped, seed, file_list,
     dest, genPc, genPos, s2c, srvOut, srvSentinels, srvRedo,
     srvSent, recvPc, phase, recvIdx, recvMsg, target_file, copied,
     processed, before, statsRead, result >>

flVars == << list, name_scratch, rec >>
sumVars == << file_len, sum_head, remaining, block_i >>
hsVars == << motdSeen, protocol, rxEof, enveloped, seed, file_list >>
genVars == << genPc, genPos >>
srvVars == << s2c, srvOut, srvSentinels, srvRedo, srvSent >>
recvVars == << recvPc, phase, recvIdx, recvMsg, target_file, copied, processed, before >>

\* No record read yet.
NoRec ==
  [inherit_name_len |-> 0, name_len |-> 0, same_time |-> FALSE, same_mode |-> FALSE,
   scratch_len |-> 0, has_prev |-> FALSE]

\* One read on the connection: framed when it went through EnvelopeRead.
Read(what, framed) == [what |-> what, framed |-> framed]

Urls == { [module |-> "pysjtu", path |-> "pysjtu/"] }

Init ==
  /\ mainPc = "start"
  /\ url \in Urls
  /\ sent = <<>>
  /\ srvRead = 0
  /\ motdSeen = 0
  /\ line = <<>>
  /\ lastRead = Read("none", FALSE)
  /\ list = <<>>
  /\ name_scratch = <<>>
  /\ rec = NoRec
  /\ file_len = 0
  /\ sum_head = ZeroHead
  /\ remaining = 0
  /\ block_i = 0
  /\ protocol = 0
  /\ rxEof = FALSE
  /\ enveloped = FALSE
  /\ seed = 0
  /\ file_list = <<>>
  /\ dest \in InitialDests
  /\ genPc = "idle"
  /\ genPos = 0
  /\ s2c = <<>>
  /\ srvOut = <<>>
  /\ srvSentinels = 0
  /\ srvRedo = 0
  /\ srvSent = <<>>
  /\ recvPc = "idle"
  /\ phase = 0
  /\ recvIdx = -1
  /\ recvMsg = SentinelMsg
  /\ target_file = <<>>
  /\ copied = 0
  /\ processed = <<>>
  /\ before = Absent
  /\ statsRead = 0
  /\ result = "running"

(***************************************************************************)
(* The handshake: Conn::start_inband_exchange and Conn::handshake_done.    *)
(***************************************************************************)
\* start_socket_client returns Err(kind) : `?` on a failed step.
Bail(kind) ==
  /\ mainPc' = "failed"
  /\ result' = kind

\* scan_fmt!("{}.{}") falling back to scan_fmt!("{}"): the header holds a
\* version when it starts with a number, and the major version is the first.
has_version(g) == Len(g.version) >= 1
remote_protocol(g) == g.version[1]

\* start_inband_exchange: write the client's greeting.
SendGreeting ==
  /\ mainPc = "start"
  /\ sent' = Append(sent, WLine("main", "@RSYNCD: 27.0"))
  /\ mainPc' = "greeting"
  /\ UNCHANGED << url, sumVars, flVars, line, lastRead, srvRead, hsVars, dest, genVars, srvVars, recvVars, statsRead, result >>

VersionOk_OffByOne(v) == v >= MIN_PROTOCOL - 1

\* The version check on the parsed greeting.
VersionOk(v) == v >= MIN_PROTOCOL

\* start_inband_exchange: read the server's greeting, check it, and write
\* the module name.
ReadGreeting ==
  /\ mainPc = "greeting"
  /\ lastRead' = Read("greeting", enveloped)
  /\ \E g \in Greetings :
       IF ~g.prefix \/ ~has_version(g)
         THEN Bail("InvalidGreeting") /\ UNCHANGED << sent, protocol >>
       ELSE IF ~VersionOk(remote_protocol(g))
         THEN Bail("VersionTooOld") /\ protocol' = remote_protocol(g) /\ UNCHANGED sent
       ELSE /\ sent' = Append(sent, WLine("main", url.module))
            /\ protocol' = remote_protocol(g)
            /\ mainPc' = "motd"
            /\ UNCHANGED result
  /\ UNCHANGED << url, sumVars, flVars, line, srvRead, motdSeen, rxEof, enveloped, seed, file_list, dest, genVars,
                  srvVars, recvVars, statsRead >>


\* str::starts_with
starts_with(l, prefix) ==
  /\ Len(l) >= Len(prefix)
  /\ SubSeq(l, 1, Len(prefix)) = prefix

\* const SERVER_OPTIONS
SERVER_OPTIONS == << "--server", "--sender", "-ltpr", "." >>

\* The lines start_inband_exchange writes after the MOTD: the options, the
\* path when it is not empty, and an empty line.
OptionLines(path) ==
  [i \in 1..Len(SERVER_OPTIONS) |-> WLine("main", SERVER_OPTIONS[i])]
    \o (IF path # "" THEN << WLine("main", path) >> ELSE <<>>)
    \o << WLine("main", "") >>

motd_line_ErrorForwarded(l) ==
  IF starts_with(l, <<"@RSYNCD: ", "AUTHREQD ">>) THEN "authreqd"
  ELSE IF starts_with(l, <<"@RSYNCD: ", "OK">>) THEN "ok"
  ELSE "print"

\* The if/else chain of the MOTD loop: what a line makes the loop do.
motd_line(l) ==
  IF starts_with(l, <<"@ERROR">>) THEN "error"
  ELSE IF starts_with(l, <<"@RSYNCD: ", "AUTHREQD ">>) THEN "authreqd"
  ELSE IF starts_with(l, <<"@RSYNCD: ", "OK">>) THEN "ok"
  ELSE "print"

\* start_inband_exchange: one turn of the MOTD loop, and on OK the options.
ReadMotdLine ==
  /\ mainPc = "motd"
  /\ lastRead' = Read("motd", enveloped)
  /\ \E l \in MotdLines :
       /\ rxEof => l = EofLine
       /\ line' = l
       /\ IF motd_line(l) = "error"
            THEN Bail("ServerError") /\ UNCHANGED << sent, motdSeen, rxEof >>
          ELSE IF motd_line(l) = "authreqd"
            THEN Bail("AuthRequired") /\ UNCHANGED << sent, motdSeen, rxEof >>
          ELSE IF motd_line(l) = "ok"
            THEN /\ sent' = sent \o OptionLines(url.path)
                 /\ mainPc' = "seed"
                 /\ motdSeen' = 0
                 /\ UNCHANGED << result, rxEof >>
          ELSE /\ l # EofLine => motdSeen < MaxMotd
               /\ motdSeen' = IF l = EofLine THEN motdSeen ELSE motdSeen + 1
               /\ rxEof' = (l = EofLine)
               /\ UNCHANGED << sent, mainPc, result >>
  /\ UNCHANGED << url, sumVars, flVars, srvRead, protocol, enveloped, seed, file_list, dest, genVars,
                  srvVars, recvVars, statsRead >>

handshake_done_NoEnvelope ==
  /\ mainPc = "seed"
  /\ \E s \in Seeds : seed' = s
  /\ lastRead' = Read("seed", enveloped)
  /\ sent' = Append(sent, WInt("main", 0))
  /\ mainPc' = "flist"
  /\ UNCHANGED << url, sumVars, flVars, line, srvRead, motdSeen, protocol, rxEof, enveloped, file_list, dest,
                  genVars, srvVars, recvVars, statsRead, result >>

\* handshake_done: read the seed, write the empty filter list, engage the
\* envelope.
handshake_done ==
  /\ mainPc = "seed"
  /\ \E s \in Seeds : seed' = s
  /\ lastRead' = Read("seed", enveloped)
  /\ sent' = Append(sent, WInt("main", 0))
  /\ enveloped' = TRUE
  /\ mainPc' = "flist"
  /\ UNCHANGED << url, sumVars, flVars, line, srvRead, motdSeen, protocol, rxEof, file_list, dest, genVars,
                  srvVars, recvVars, statsRead, result >>

\* Vec::sort_unstable_by(|x, y| x.name.cmp(&y.name)): any ordering of the
\* entries in which no name precedes a smaller one.
Perms(n) == {p \in [1..n -> 1..n] : \A i, j \in 1..n : p[i] = p[j] => i = j}

sort_unstable_by_name(v) ==
  { [i \in 1..Len(v) |-> v[p[i]]] : p \in
      {q \in Perms(Len(v)) :
         \A i \in 1..(Len(v) - 1) : ~NameLess(v[q[i + 1]].name, v[q[i]].name)} }

\* Vec::dedup_by(|x, y| x.name == y.name): drop an entry whose name equals
\* that of the entry kept before it.
dedup_by_name_Skipped(v) == v

RECURSIVE dedup_by_name(_)
dedup_by_name(v) ==
  IF Len(v) <= 1 THEN v
  ELSE LET init == dedup_by_name(SubSeq(v, 1, Len(v) - 1))
           last == v[Len(v)]
       IN  IF init[Len(init)].name = last.name THEN init ELSE Append(init, last)

mark_idx_Forgotten(v) == v

\* `entry.idx = i32::try_from(idx)` for every position.
mark_idx(v) == [i \in 1..Len(v) |-> [v[i] EXCEPT !.idx = i - 1]]

\* recv_file_list, after the records are read: sort, dedup, number.
recv_file_list(raw) == { mark_idx(dedup_by_name(l)) : l \in sort_unstable_by_name(raw) }

\* start_socket_client: receive the file list.
RecvFileList ==
  /\ mainPc = "flist"
  /\ lastRead' = Read("flist", enveloped)
  /\ \E raw \in RawLists : \E l \in recv_file_list(raw) : file_list' = l
  /\ mainPc' = "io_errors"
  /\ UNCHANGED << url, sumVars, flVars, line, sent, srvRead, motdSeen, protocol, rxEof, enveloped, seed, dest,
                  genVars, srvVars, recvVars, statsRead, result >>

(***************************************************************************)
(* The file list record by record: the loop of recv_file_list and          *)
(* recv_file_entry.                                                        *)
(***************************************************************************)
XMIT_TOP_DIR == 1
XMIT_SAME_MODE == 2
XMIT_SAME_NAME == 32
XMIT_LONG_NAME == 64
XMIT_SAME_TIME == 128
PATH_MAX == 4096

\* flags & MASK != 0 on a u8, MASK a single bit.
has_flag(flags, mask) == (flags \div mask) % 2 = 1

\* The flag bytes a record may start with: any of the bits the decoder
\* looks at, and XMIT_TOP_DIR alone for a record with none of them (a zero
\* byte ends the list).
Flags ==
  ({ m + n + l + t : m \in {0, XMIT_SAME_MODE}, n \in {0, XMIT_SAME_NAME},
                     l \in {0, XMIT_LONG_NAME}, t \in {0, XMIT_SAME_TIME} } \ {0})
    \cup {XMIT_TOP_DIR}

\* A record on the wire.  The fields a flag makes the decoder skip are not
\* read; name_len is the u8 or u32 read as the suffix length.
WireRecord(flags, inherit, name_len, suffix, secs, mode) ==
  [flags |-> flags, inherit_name_len |-> inherit, name_len |-> name_len, suffix |-> suffix,
   len |-> 1, secs |-> secs, mode |-> mode]

\* The records a server may send: those with a short name suffix, and
\* those announcing a name beyond PATH_MAX, whose suffix is never read.
WireRecords ==
  { WireRecord(f, i, Len(x), x, t, m) :
      f \in Flags, i \in 0..MaxInherit, x \in {<<1>>, <<2>>}, t \in {1, 2},
      m \in {33188, 16877} }
    \cup
  { WireRecord(XMIT_LONG_NAME + XMIT_SAME_NAME, i, PATH_MAX + 1 - i, <<>>, 1, 33188) :
      i \in 0..MaxInherit }
    \cup
  { WireRecord(XMIT_LONG_NAME, 0, PATH_MAX + 1, <<>>, 1, 33188) }

\* recv_file_entry: decode one record against the scratch name and the
\* last entry of the list.  "PathTooLong" is the bail!, "panic" is the
\* assert! on the scratch length or the expect on prev.
recv_file_entry(r, scratch, entries) ==
  LET same_name == has_flag(r.flags, XMIT_SAME_NAME)
      same_time == has_flag(r.flags, XMIT_SAME_TIME)
      same_mode == has_flag(r.flags, XMIT_SAME_MODE)
      inherit == IF same_name THEN r.inherit_name_len ELSE 0
      has_prev == entries # <<>>
      prev == entries[Len(entries)]
      header == [inherit_name_len |-> inherit, name_len |-> r.name_len,
                 same_time |-> same_time, same_mode |-> same_mode,
                 scratch_len |-> Len(scratch), has_prev |-> has_prev]
      name == SubSeq(scratch, 1, inherit) \o r.suffix
      status == IF r.name_len > PATH_MAX - inherit THEN "PathTooLong"
                ELSE IF ~(inherit <= Len(scratch)) THEN "panic"
                ELSE IF same_time /\ ~has_prev THEN "panic"
                ELSE IF same_mode /\ ~has_prev THEN "panic"
                ELSE "ok"
  IN  [status |-> status,
       rec |-> header,
       scratch |-> IF status = "ok" THEN name ELSE scratch,
       entries |->
         IF status = "ok"
           THEN Append(entries,
                       FileEntry(name, r.len,
                                 IF same_time THEN prev.modify_time ELSE from_secs(r.secs),
                                 IF same_mode THEN prev.mode ELSE r.mode))
           ELSE entries]

\* recv_file_list: one turn of the loop on a non-zero flag byte.
RecvFileEntry ==
  /\ mainPc = "flist"
  /\ Len(list) < MaxEntries
  /\ lastRead' = Read("flist", enveloped)
  /\ \E r \in WireRecords :
       LET out == recv_file_entry(r, name_scratch, list)
       IN  /\ rec' = out.rec
           /\ name_scratch' = out.scratch
           /\ list' = out.entries
           /\ mainPc' = IF out.status = "ok" THEN "flist"
                        ELSE IF out.status = "panic" THEN "panicked" ELSE "failed"
           /\ result' = IF out.status = "ok" THEN result ELSE out.status
  /\ UNCHANGED << url, sumVars, line, sent, srvRead, motdSeen, protocol, rxEof, enveloped, seed,
                  file_list, dest, genVars, srvVars, recvVars, statsRead >>

\* recv_file_list on the zero byte: sort, dedup and number what was read.
RecvFileListEnd ==
  /\ mainPc = "flist"
  /\ lastRead' = Read("flist", enveloped)
  /\ \E l \in recv_file_list(list) : file_list' = l
  /\ mainPc' = "io_errors"
  /\ UNCHANGED << url, sumVars, flVars, line, sent, srvRead, motdSeen, protocol, rxEof, enveloped, seed,
                  dest, genVars, srvVars, recvVars, statsRead, result >>

\* start_socket_client: read io_errors (a non-zero count is only logged),
\* split the connection and start the two tasks under try_join!.
ReadIoErrors ==
  /\ mainPc = "io_errors"
  /\ lastRead' = Read("io_errors", enveloped)
  /\ \E n \in {0, 3} : TRUE
  /\ mainPc' = "transfer"
  /\ genPc' = "entries"
  /\ recvPc' = "next"
  /\ srvRead' = Len(sent)
  /\ UNCHANGED << url, sumVars, flVars, line, sent, hsVars, dest, genPos, srvVars, phase, recvIdx, recvMsg,
                  target_file, copied, processed, before, statsRead, result >>

\* A read or write of the handshake fails (`?` on an io::Error).
HandshakeIoError ==
  /\ mainPc \in {"start", "greeting", "motd", "seed", "flist", "io_errors"}
  /\ Bail("Network")
  /\ UNCHANGED << url, sumVars, flVars, line, lastRead, sent, srvRead, hsVars, dest, genVars, srvVars, recvVars, statsRead >>


(***************************************************************************)
(* The supervisor: tokio::try_join! over generate_task and recv_task.      *)
(***************************************************************************)
\* join!(g, r) in place of try_join!: both futures run to completion before
\* the call returns.
try_join_WaitsForBoth(g, r) ==
  IF g = "panic" \/ r = "panic"
    THEN [main |-> "panicked", gen |-> g, recv |-> r]
  ELSE IF g \in {"done", "err"} /\ r \in {"done", "err"}
    THEN [main |-> IF g = "err" \/ r = "err" THEN "failed" ELSE "stats", gen |-> g, recv |-> r]
  ELSE [main |-> "transfer", gen |-> g, recv |-> r]

\* try_join!(g, r), given where each task stands after a step: the first
\* Err ends the call and drops (cancels) the other future; a panic unwinds
\* through the call; two Ok(()) let start_socket_client go on.
try_join(g, r) ==
  IF g = "panic" \/ r = "panic"
    THEN [main |-> "panicked", gen |-> g, recv |-> r]
  ELSE IF g = "err"
    THEN [main |-> "failed", gen |-> g, recv |-> IF r = "done" THEN r ELSE "cancelled"]
  ELSE IF r = "err"
    THEN [main |-> "failed", gen |-> IF g = "done" THEN g ELSE "cancelled", recv |-> r]
  ELSE IF g = "done" /\ r = "done"
    THEN [main |-> "stats", gen |-> g, recv |-> r]
  ELSE [main |-> "transfer", gen |-> g, recv |-> r]

\* The effect on the three program counters of a task step that leaves the
\* generator at g and the receiver at r, failing (if it fails) with kind.
Joined(g, r, kind) ==
  LET j == try_join(g, r)
  IN  /\ mainPc' = j.main
      /\ genPc' = j.gen
      /\ recvPc' = j.recv
      /\ result' = IF j.main = "failed" THEN kind
                   ELSE IF j.main = "panicked" THEN "panic"
                   ELSE result

(***************************************************************************)
(* The generator: Generator::generate_task.                                *)
(***************************************************************************)
WReq(by, idx, head, sums) ==
  [by |-> by, kind |-> "request", line |-> "", n |-> idx, head |-> head, sums |-> sums]

\* Requests and sentinels written and not yet read by the server.
InFlight == Len(sent) - srvRead

\* mod_time_eq: both times as whole seconds since the epoch.
mod_time_eq(x, y) == as_secs(x) = as_secs(y)

\* Metadata::size of what a path holds (a directory's is one block).
meta_size(f) == IF f.kind = "dir" THEN 4096 ELSE Len(f.content)

\* SumHead::sum_sizes_sqroot: the square-root block-size policy.
BLOCK_SIZE == 700
CeilSqrt(n) == CHOOSE r \in 0..Min(n, 46340) : r * r >= n /\ (r = 0 \/ (r - 1) * (r - 1) < n)
RoundUp8(n) == ((n + 7) \div 8) * 8
sum_sizes_sqroot_FloorCount(len) ==
  LET block_len == IF RoundUp8(CeilSqrt(len)) < BLOCK_SIZE THEN BLOCK_SIZE
                   ELSE RoundUp8(CeilSqrt(len))
  IN  [checksum_count |-> len \div block_len,
       block_len |-> block_len,
       checksum_len |-> 16,
       remainder_len |-> len % block_len]

sum_sizes_sqroot(len) ==
  LET block_len == IF RoundUp8(CeilSqrt(len)) < BLOCK_SIZE THEN BLOCK_SIZE
                   ELSE RoundUp8(CeilSqrt(len))
  IN  [checksum_count |-> (len + block_len - 1) \div block_len,
       block_len |-> block_len,
       checksum_len |-> 16,
       remainder_len |-> len % block_len]

\* checksum_1: the rolling checksum of a block, as its two 16-bit halves.
RECURSIVE Sum1(_)
Sum1(b) == IF b = <<>> THEN 0 ELSE Head(b) + Sum1(Tail(b))
RECURSIVE Sum2(_)
Sum2(b) == IF b = <<>> THEN 0 ELSE Len(b) * Head(b) + Sum2(Tail(b))
checksum_1(b) == << Sum1(b) % 65536, Sum2(b) % 65536 >>

\* checksum_2: the seeded strong checksum of a block (seed, then block).
checksum_2(s, b) == Md4Seeded(s, b)

\* generate_and_send_sums: the SumHead of the basis and one (rolling,
\* strong) pair per block; reading a directory fails at the first block.
RECURSIVE block_sums(_, _, _, _)
block_sums(s, content, block_len, count) ==
  IF count = 0 THEN <<>>
  ELSE LET n1 == Min(block_len, Len(content))
       IN  << [sum1 |-> checksum_1(SubSeq(content, 1, n1)),
               sum2 |-> checksum_2(s, SubSeq(content, 1, n1))] >>
             \o block_sums(s, SubSeq(content, n1 + 1, Len(content)), block_len, count - 1)

generate_and_send_sums(s, idx, f) ==
  LET head == sum_sizes_sqroot(meta_size(f))
  IN  IF f.kind = "dir" /\ head.checksum_count > 0
        THEN [res |-> "err", writes |-> << WReq("gen", idx, head, <<>>) >>]
        ELSE [res |-> "ok",
              writes |-> << WReq("gen", idx, head,
                                 block_sums(s, f.content, head.block_len, head.checksum_count)) >>]

\* recv_generator(entry) on a regular-file entry: what it writes and
\* whether it fails.
recv_generator_file(s, entry, f) ==
  IF f.kind # "absent" /\ meta_size(f) = entry.len /\ mod_time_eq(f.mtime, entry.modify_time)
    THEN [res |-> "ok", writes |-> <<>>]
  ELSE IF f.kind # "absent"
    THEN generate_and_send_sums(s, entry.idx, f)
  ELSE [res |-> "ok", writes |-> << WReq("gen", entry.idx, ZeroHead, <<>>) >>]

recv_generator_TouchesFile(s, entry, d, now) ==
  IF is_file(entry.mode) /\ d[entry.name].kind = "absent"
    THEN [res |-> "ok", writes |-> << WReq("gen", entry.idx, ZeroHead, <<>>) >>,
          dest |-> [d EXCEPT ![entry.name] = RegFile(<<>>, now)]]
    ELSE [res |-> "ok", writes |-> <<>>, dest |-> d]

\* recv_generator(entry): directories are created, other non-regular
\* entries skipped, regular files requested unless up to date.
recv_generator(s, entry, d, now) ==
  IF is_dir(entry.mode)
    THEN IF d[entry.name].kind = "file"
           THEN [res |-> "err", writes |-> <<>>, dest |-> d]
         ELSE IF d[entry.name].kind = "dir"
           THEN [res |-> "ok", writes |-> <<>>, dest |-> d]
         ELSE [res |-> "ok", writes |-> <<>>, dest |-> [d EXCEPT ![entry.name] = Dir(now)]]
  ELSE IF ~is_file(entry.mode)
    THEN [res |-> "ok", writes |-> <<>>, dest |-> d]
  ELSE LET o == recv_generator_file(s, entry, d[entry.name])
       IN  [res |-> o.res, writes |-> o.writes, dest |-> d]

\* generate_task reading the connection: before the next entry it takes
\* the answer to a request it has made.
GenEntry_ReadsConnection ==
  /\ mainPc = "transfer"
  /\ genPc = "entries"
  /\ genPos < Len(file_list)
  /\ genPos > 0 => s2c # <<>>
  /\ s2c' = IF genPos > 0 THEN Tail(s2c) ELSE s2c
  /\ \E now \in Clock :
       LET o == recv_generator(seed, file_list[genPos + 1], dest, now)
       IN  /\ o.writes # <<>> => InFlight < BufCap
           /\ sent' = sent \o o.writes
           /\ dest' = o.dest
           /\ genPos' = genPos + 1
           /\ Joined(IF o.res = "err" THEN "err" ELSE "entries", recvPc, "Filesystem")
  /\ UNCHANGED << url, sumVars, flVars, line, lastRead, srvRead, hsVars, srvOut, srvSentinels, srvRedo, srvSent, phase, recvIdx,
                  recvMsg, target_file, copied, processed, before, statsRead >>

\* generate_task: the next entry of the loop over the file list.  A write
\* waits while the send buffer is full.
GenEntry ==
  /\ mainPc = "transfer"
  /\ genPc = "entries"
  /\ genPos < Len(file_list)
  /\ \E now \in Clock :
       LET o == recv_generator(seed, file_list[genPos + 1], dest, now)
       IN  /\ o.writes # <<>> => InFlight < BufCap
           /\ sent' = sent \o o.writes
           /\ dest' = o.dest
           /\ genPos' = genPos + 1
           /\ Joined(IF o.res = "err" THEN "err" ELSE "entries", recvPc, "Filesystem")
  /\ UNCHANGED << url, sumVars, flVars, line, lastRead, srvRead, hsVars, srvVars, phase, recvIdx, recvMsg, target_file,
                  copied, processed, before, statsRead >>

\* generate_task with a single phase sentinel.
GenSentinel_OnlyOne ==
  /\ mainPc = "transfer"
  /\ genPc = "entries" /\ genPos = Len(file_list)
  /\ InFlight < BufCap
  /\ sent' = Append(sent, WInt("gen", -1))
  /\ Joined("done", recvPc, "Network")
  /\ UNCHANGED << url, sumVars, flVars, line, lastRead, srvRead, hsVars, dest, genPos, srvVars, phase, recvIdx, recvMsg,
                  target_file, copied, processed, before, statsRead >>

\* generate_task: the two phase sentinels, then Ok(()).
GenSentinel ==
  /\ mainPc = "transfer"
  /\ \/ genPc = "entries" /\ genPos = Len(file_list)
     \/ genPc = "phase2"
  /\ InFlight < BufCap
  /\ sent' = Append(sent, WInt("gen", -1))
  /\ Joined(IF genPc = "entries" THEN "phase2" ELSE "done", recvPc, "Network")
  /\ UNCHANGED << url, sumVars, flVars, line, lastRead, srvRead, hsVars, dest, genPos, srvVars, phase, recvIdx, recvMsg,
                  target_file, copied, processed, before, statsRead >>

\* A write of the generator fails (`?` on an io::Error).
GenIoError ==
  /\ mainPc = "transfer"
  /\ genPc \in {"entries", "phase2"}
  /\ Joined("err", recvPc, "Network")
  /\ UNCHANGED << url, sumVars, flVars, line, lastRead, sent, srvRead, hsVars, dest, genPos, srvVars, phase, recvIdx,
                  recvMsg, target_file, copied, processed, before, statsRead >>

(***************************************************************************)
(* The receiver: Receiver::recv_task, recv_data, recv_token.               *)
(***************************************************************************)
\* recv_token: the token a wire word stands for.
recv_token(w) ==
  IF w.tok = 0 THEN [t |-> "Done", data |-> <<>>, block |-> 0]
  ELSE IF w.tok > 0 THEN [t |-> "Data", data |-> w.bytes, block |-> 0]
  ELSE [t |-> "Copied", data |-> <<>>, block |-> -(w.tok + 1)]

\* `block_offset == checksum_count as u32 - 1 && remainder_len != 0`, and the
\* length it selects.  The subtraction underflows when checksum_count is 0:
\* a build with overflow checks panics there, one without wraps to
\* u32::MAX, which no block offset equals.
data_len(head, block_offset, overflow_checks) ==
  IF head.checksum_count = 0
    THEN IF overflow_checks THEN [panic |-> TRUE, wrapped |-> FALSE, len |-> 0]
         ELSE [panic |-> FALSE, wrapped |-> TRUE, len |-> head.block_len]
  ELSE IF block_offset = head.checksum_count - 1 /\ head.remainder_len # 0
    THEN [panic |-> FALSE, wrapped |-> FALSE, len |-> head.remainder_len]
  ELSE [panic |-> FALSE, wrapped |-> FALSE, len |-> head.block_len]

\* The token loop of recv_data: st is [status, data], data being what has
\* been written to the temporary file (and fed to the hasher) so far.
RECURSIVE token_loop(_, _, _, _, _)
token_loop(st, tokens, head, basis, overflow_checks) ==
  IF st.status # "ok" \/ tokens = <<>> THEN st
  ELSE
    LET token == recv_token(Head(tokens))
    IN  IF token.t = "Done" THEN st
        ELSE IF token.t = "Data"
          THEN token_loop([st EXCEPT !.data = st.data \o token.data],
                          Tail(tokens), head, basis, overflow_checks)
        ELSE
          LET offset == token.block * head.block_len
              dl == data_len(head, token.block, overflow_checks)
          IN  IF dl.panic THEN [st EXCEPT !.status = "panic"]
              ELSE IF basis.kind = "absent" THEN [st EXCEPT !.status = "panic"]
              ELSE IF basis.kind = "dir" /\ dl.len > 0 THEN [st EXCEPT !.status = "Filesystem"]
              ELSE IF dl.len > 0 /\ offset + dl.len > Len(basis.content)
                THEN [st EXCEPT !.status = "Filesystem"]
              ELSE token_loop(
                     [st EXCEPT !.data = st.data \o SubSeq(basis.content, offset + 1, offset + dl.len)],
                     Tail(tokens), head, basis, overflow_checks)

checksum_matches_Unchecked(local_checksum, remote_checksum) == TRUE

\* `ensure!(&*local_checksum == remote_checksum, "checksum mismatch")`
checksum_matches(local_checksum, remote_checksum) == local_checksum = remote_checksum

\* recv_data: [status, data], status "ok" when the temporary file holds
\* data and its seeded MD4 equals the digest that followed the tokens.
recv_data(s, basis, msg, overflow_checks) ==
  LET st == token_loop([status |-> "ok", data |-> <<>>], msg.tokens, msg.head, basis,
                       overflow_checks)
  IN  IF st.status # "ok" THEN st
      ELSE IF ~checksum_matches(Md4Seeded(s, st.data), msg.digest)
        THEN [st EXCEPT !.status = "ChecksumMismatch"]
      ELSE st

on_sentinel_BreaksAtFirst(ph) == [phase |-> ph + 1, pc |-> "done"]

\* recv_task on reading -1: the first one advances the phase, the next one
\* leaves the loop.
on_sentinel(ph) ==
  IF ph = 0 THEN [phase |-> ph + 1, pc |-> "next"] ELSE [phase |-> ph, pc |-> "done"]

after_recv_data_IgnoresErr(status) == IF status = "panic" THEN "panic" ELSE "create"

\* recv_task after `self.recv_data(seed, basis_file).await?`: go on to the
\* commit only with Ok(target_file).
after_recv_data(status) ==
  IF status = "ok" THEN "create" ELSE IF status = "panic" THEN "panic" ELSE "err"

\* recv_task: read the next index; on -1 advance the phase or leave the
\* loop, otherwise open the basis and run recv_data for that entry.
RecvNext ==
  /\ mainPc = "transfer"
  /\ recvPc = "next"
  /\ lastRead' = Read("idx", enveloped)
  /\ s2c # <<>>
  /\ Head(s2c).kind = "file"
  /\ s2c' = Tail(s2c)
  /\ LET msg == Head(s2c)
         idx == msg.idx
     IN  IF idx = -1
           THEN /\ phase' = on_sentinel(phase).phase
                /\ Joined(genPc, on_sentinel(phase).pc, "Network")
                /\ UNCHANGED << recvIdx, recvMsg, target_file, processed, before >>
         ELSE IF idx < 0 \/ idx >= Len(file_list)
           THEN /\ Joined(genPc, "panic", "panic")
                /\ UNCHANGED << phase, recvIdx, recvMsg, target_file, processed, before >>
         ELSE \E overflow_checks \in BOOLEAN :
                LET basis == dest[file_list[idx + 1].name]
                    out == recv_data(seed, basis, msg, overflow_checks)
                IN  /\ recvIdx' = idx
                    /\ recvMsg' = msg
                    /\ before' = basis
                    /\ processed' = Append(processed, idx)
                    /\ target_file' = out.data
                    /\ Joined(genPc, after_recv_data(out.status), out.status)
                    /\ UNCHANGED phase
  /\ UNCHANGED << url, sumVars, flVars, line, sent, srvRead, hsVars, dest, genPos, srvOut, srvSentinels, srvRedo,
                  srvSent, copied, statsRead >>

\* recv_task: File::create on the destination path truncates it.
RecvCreate ==
  /\ mainPc = "transfer"
  /\ recvPc = "create"
  /\ LET name == file_list[recvIdx + 1].name
     IN  IF dest[name].kind = "dir"
           THEN /\ Joined(genPc, "err", "Filesystem")
                /\ UNCHANGED << dest, copied >>
         ELSE \E now \in Clock :
                /\ dest' = [dest EXCEPT ![name] = RegFile(<<>>, now)]
                /\ copied' = 0
                /\ Joined(genPc, "copy", "Filesystem")
  /\ UNCHANGED << url, sumVars, flVars, line, lastRead, sent, srvRead, hsVars, genPos, srvVars, phase, recvIdx, recvMsg,
                  target_file, processed, before, statsRead >>

\* recv_task: tokio::io::copy moves the temporary file into the
\* destination a chunk at a time and flushes when the source is drained.
RecvCopy ==
  /\ mainPc = "transfer"
  /\ recvPc = "copy"
  /\ LET name == file_list[recvIdx + 1].name
         n == Min(CopyChunk, Len(target_file) - copied)
     IN  IF n > 0
           THEN /\ dest' = [dest EXCEPT ![name].content =
                               @ \o SubSeq(target_file, copied + 1, copied + n)]
                /\ copied' = copied + n
                /\ UNCHANGED << mainPc, genPc, recvPc, result >>
           ELSE /\ Joined(genPc, "mtime", "Filesystem")
                /\ UNCHANGED << dest, copied >>
  /\ UNCHANGED << url, sumVars, flVars, line, lastRead, sent, srvRead, hsVars, genPos, srvVars, phase, recvIdx, recvMsg,
                  target_file, processed, before, statsRead >>

set_mtime_Never(d, entry) == d

\* recv_task after the copy: read the destination's mtime back and set the
\* entry's when the two differ at whole seconds.
set_mtime(d, entry) ==
  LET old_mod_time == d[entry.name].mtime
  IN  IF ~mod_time_eq(old_mod_time, entry.modify_time)
        THEN [d EXCEPT ![entry.name].mtime = entry.modify_time]
        ELSE d

\* recv_task: read back the destination's mtime and set the entry's when
\* the two differ at whole seconds.
RecvSetMtime ==
  /\ mainPc = "transfer"
  /\ recvPc = "mtime"
  /\ dest' = set_mtime(dest, file_list[recvIdx + 1])
  /\ Joined(genPc, "next", "Filesystem")
  /\ UNCHANGED << url, sumVars, flVars, line, lastRead, sent, srvRead, hsVars, genPos, srvVars, phase, recvIdx, recvMsg,
                  target_file, copied, processed, before, statsRead >>

\* A read from the connection or a filesystem call of the receiver fails
\* (`?` on an io::Error).
RecvIoError ==
  /\ mainPc = "transfer"
  /\ recvPc \in {"next", "create", "copy", "mtime"}
  /\ Joined(genPc, "err", "Network")
  /\ UNCHANGED << url, sumVars, flVars, line, lastRead, sent, srvRead, hsVars, dest, genPos, srvVars, phase, recvIdx,
                  recvMsg, target_file, copied, processed, before, statsRead >>

(***************************************************************************)
(* The remote sender.  It is the environment: it answers every request it  *)
(* reads, with tokens and a digest of its own choosing.                    *)
(***************************************************************************)
\* What a sender may answer a request with: the SumHead it echoes or one
\* of its own, and a token stream.
ServerPlans ==
  { [echo |-> TRUE, head |-> ZeroHead,
     tokens |-> << DataTok(<<1, 2>>), DoneTok >>],
    [echo |-> TRUE, head |-> ZeroHead,
     tokens |-> << CopiedTok(0), DataTok(<<2>>), DoneTok >>],
    [echo |-> FALSE,
     head |-> [checksum_count |-> 2, block_len |-> 2, checksum_len |-> 16, remainder_len |-> 1],
     tokens |-> << CopiedTok(1), CopiedTok(0), DoneTok >>],
    [echo |-> TRUE, head |-> ZeroHead, tokens |-> << DoneTok >>] }

\* What a sender sends again unrequested: a file of literal data.
RedoPlans ==
  { plan \in ServerPlans : /\ \A i \in DOMAIN plan.tokens : plan.tokens[i].tok >= 0
                           /\ \E i \in DOMAIN plan.tokens : plan.tokens[i].tok > 0 }

\* The file messages a sender may send for index idx, requested with head:
\* each of the plans, with the digest of the file the tokens describe or
\* with another digest.
Answers(idx, head, plans) ==
  LET basis == IF idx \in 0..(Len(file_list) - 1) THEN dest[file_list[idx + 1].name] ELSE Absent
      Msg(plan, digest) == FileMsg(idx, IF plan.echo THEN head ELSE plan.head, plan.tokens, digest)
      Good(plan) == Md4Seeded(seed, token_loop([status |-> "ok", data |-> <<>>], plan.tokens,
                                                Msg(plan, 0).head, basis, FALSE).data)
  IN  { Msg(plan, (Good(plan) + d) % DigestMod) : plan \in plans, d \in {0, 1} }

ServerActive == mainPc \in {"transfer", "stats", "final", "shutdown", "done"}

\* The sender reads the next request or sentinel and prepares its answer:
\* a file for a request, -1 for the first -1, -1 and the three statistics
\* for the second, nothing for the third.
ServerRead ==
  /\ ServerActive
  /\ srvOut = <<>>
  /\ srvRead < Len(sent)
  /\ LET r == sent[srvRead + 1]
     IN  IF r.kind = "request"
           THEN /\ Len(r.sums) = r.head.checksum_count
                /\ \E m \in Answers(r.n, r.head, ServerPlans) : srvOut' = << m >>
                /\ UNCHANGED srvSentinels
           ELSE /\ srvSentinels' = srvSentinels + 1
                /\ srvOut' = IF srvSentinels = 0 THEN << SentinelMsg >>
                             ELSE IF srvSentinels = 1
                               THEN << SentinelMsg, LongMsg(0), LongMsg(0), LongMsg(0) >>
                             ELSE <<>>
  /\ srvRead' = srvRead + 1
  /\ UNCHANGED << mainPc, url, sumVars, flVars, line, lastRead, sent, hsVars, dest, genVars, s2c, srvRedo, srvSent, recvVars,
                  statsRead, result >>

\* The sender writes the next prepared message; the write waits while the
\* client's receive buffer is full.
ServerSend ==
  /\ ServerActive
  /\ srvOut # <<>>
  /\ Len(s2c) < BufCap
  /\ s2c' = Append(s2c, Head(srvOut))
  /\ srvOut' = Tail(srvOut)
  /\ srvSent' = IF Head(srvOut).kind = "file" THEN Append(srvSent, Head(srvOut).idx) ELSE srvSent
  /\ UNCHANGED << mainPc, url, sumVars, flVars, line, lastRead, sent, srvRead, hsVars, dest, genVars, srvSentinels, srvRedo,
                  recvVars, statsRead, result >>

\* The indices a sender may send unrequested: those of the list, the one
\* past its end, and a negative one that is not -1.
RedoIndices == 0..Len(file_list) \cup {-2}

\* Between its two sentinels the sender sends a file nobody requested in
\* this phase.
ServerRedo ==
  /\ ServerActive
  /\ srvSentinels = 1
  /\ srvOut = <<>>
  /\ srvRedo < MaxRedo
  /\ \E idx \in RedoIndices :
       \E m \in (IF idx \in 0..(Len(file_list) - 1)
                   THEN Answers(idx, ZeroHead, RedoPlans)
                   ELSE { FileMsg(idx, ZeroHead, << DoneTok >>, 0) }) :
         srvOut' = << m >>
  /\ srvRedo' = srvRedo + 1
  /\ UNCHANGED << mainPc, url, sumVars, flVars, line, lastRead, sent, srvRead, hsVars, dest, genVars, s2c, srvSentinels,
                  srvSent, recvVars, statsRead, result >>

(***************************************************************************)
(* start_socket_client after the join.                                     *)
(***************************************************************************)
stats_done_TwoReads(n) == n = 2

\* The statistics are three rsync-longs: read, written, size.
stats_done(n) == n = 3

\* read_rsync_long, once for each statistic.
ReadStat ==
  /\ mainPc = "stats"
  /\ lastRead' = Read("stat", enveloped)
  /\ s2c # <<>>
  /\ Head(s2c).kind = "long"
  /\ s2c' = Tail(s2c)
  /\ statsRead' = statsRead + 1
  /\ mainPc' = IF stats_done(statsRead + 1) THEN "final" ELSE "stats"
  /\ UNCHANGED << url, sumVars, flVars, line, sent, srvRead, hsVars, dest, genVars, srvOut, srvSentinels, srvRedo,
                  srvSent, recvVars, result >>

\* `tx.write_i32_le(-1)`
WriteFinal ==
  /\ mainPc = "final"
  /\ InFlight < BufCap
  /\ sent' = Append(sent, WInt("main", -1))
  /\ mainPc' = "shutdown"
  /\ UNCHANGED << url, sumVars, flVars, line, lastRead, srvRead, hsVars, dest, genVars, srvVars, recvVars, statsRead, result >>

\* `tx.shutdown()` and Ok(()).
Shutdown ==
  /\ mainPc = "shutdown"
  /\ mainPc' = "done"
  /\ result' = "ok"
  /\ UNCHANGED << url, sumVars, flVars, line, lastRead, sent, srvRead, hsVars, dest, genVars, srvVars, recvVars, statsRead >>

\* A read or write after the join fails (`?` on an io::Error).
TailIoError ==
  /\ mainPc \in {"stats", "final", "shutdown"}
  /\ Bail("Network")
  /\ UNCHANGED << url, sumVars, flVars, line, lastRead, sent, srvRead, hsVars, dest, genVars, srvVars, recvVars, statsRead >>

Next ==
  \/ SendGreeting
  \/ ReadGreeting
  \/ ReadMotdLine
  \/ handshake_done
  \/ RecvFileList
  \/ ReadIoErrors
  \/ HandshakeIoError
  \/ GenEntry
  \/ GenSentinel
  \/ GenIoError
  \/ RecvNext
  \/ RecvCreate
  \/ RecvCopy
  \/ RecvSetMtime
  \/ RecvIoError
  \/ ServerRead
  \/ ServerSend
  \/ ServerRedo
  \/ ReadStat
  \/ WriteFinal
  \/ Shutdown
  \/ TailIoError

Spec == Init /\ [][Next]_vars

(***************************************************************************)
(* Properties.                                                             *)
(***************************************************************************)
IsSentinel(w) == w.kind = "i32" /\ w.n = -1
GenWrites == SelectSeq(sent, LAMBDA w : w.by = "gen")
GenRequests == SelectSeq(GenWrites, LAMBDA w : w.kind = "request")
GenSentinels == SelectSeq(GenWrites, IsSentinel)
MainSentinels == SelectSeq(sent, LAMBDA w : w.by = "main" /\ IsSentinel(w))
Committing == recvPc \in {"create", "copy", "mtime"}
RecvName == file_list[recvIdx + 1].name

\* The indices the receiver has read off the connection, in order.
ConsumedIdx ==
  SubSeq(srvSent, 1, Len(srvSent) - Len(SelectSeq(s2c, LAMBDA m : m.kind = "file")))
Count(seq, v) == Cardinality({i \in DOMAIN seq : seq[i] = v})
Listed(idx) == idx \in 0..(Len(file_list) - 1)

\* The payload of one token as the protocol defines it: the literal bytes,
\* or the referenced block of the basis.
BlockLen(head, k) ==
  IF k = head.checksum_count - 1 /\ head.remainder_len # 0
    THEN head.remainder_len ELSE head.block_len
TokenPayload(w, head, basis) ==
  IF w.tok > 0 THEN w.bytes
  ELSE SubSeq(basis.content, (-w.tok - 1) * head.block_len + 1,
              (-w.tok - 1) * head.block_len + BlockLen(head, -w.tok - 1))
RECURSIVE Payload(_, _, _)
Payload(tokens, head, basis) ==
  IF tokens = <<>> \/ Head(tokens).tok = 0 THEN <<>>
  ELSE TokenPayload(Head(tokens), head, basis) \o Payload(Tail(tokens), head, basis)

\* Every block a token stream refers to lies inside an existing basis file.
RECURSIVE Readable(_, _, _)
Readable(tokens, head, basis) ==
  IF tokens = <<>> \/ Head(tokens).tok = 0 THEN TRUE
  ELSE /\ Head(tokens).tok < 0 =>
            /\ basis.kind = "file"
            /\ head.checksum_count > 0
            /\ BlockLen(head, -Head(tokens).tok - 1) > 0
            /\ (-Head(tokens).tok - 1) * head.block_len + BlockLen(head, -Head(tokens).tok - 1)
                 <= Len(basis.content)
       /\ Readable(Tail(tokens), head, basis)

HasCopied(tokens) == \E i \in DOMAIN tokens : tokens[i].tok < 0
HasData(tokens) == \E i \in DOMAIN tokens : tokens[i].tok > 0

\* C1: for every reconstructed file the temporary file holds, in arrival
\* order, the concatenation of the token payloads (literal bytes, or the
\* referenced basis block); the receiver goes on to write the destination
\* only when MD4(seed || those bytes) equals the digest the server sent, and
\* what the finished copy leaves in the destination is those bytes.
C1_ReconstructedAndVerified ==
  Committing =>
    /\ target_file = Payload(recvMsg.tokens, recvMsg.head, before)
    /\ Md4Seeded(seed, target_file) = recvMsg.digest
    /\ recvPc = "mtime" => dest[RecvName].content = target_file

C1_Witness ==
  /\ recvPc = "mtime"
  /\ HasCopied(recvMsg.tokens) /\ HasData(recvMsg.tokens)
  /\ Len(target_file) > CopyChunk
  /\ dest[RecvName].content = target_file

\* C2: when the digest that follows a file's tokens differs from the MD4
\* the receiver computed over seed and payload, the session has failed with
\* ChecksumMismatch in the receiver and the destination path holds exactly
\* what it held when the file's index was read.
C2_MismatchLeavesDestination ==
  ( /\ recvIdx >= 0
    /\ Readable(recvMsg.tokens, recvMsg.head, before)
    /\ Md4Seeded(seed, Payload(recvMsg.tokens, recvMsg.head, before)) # recvMsg.digest )
  => /\ result = "ChecksumMismatch"
     /\ recvPc = "err"
     /\ mainPc = "failed"
     /\ dest[RecvName] = before

C2_Witness ==
  /\ result = "ChecksumMismatch"
  /\ before.kind = "file"
  /\ before.content # <<>>
  /\ HasCopied(recvMsg.tokens)
  /\ dest[RecvName] = before

\* C3: the commit is atomic: in every reachable state the destination path
\* of the file being received holds either its complete previous content
\* or the complete new content.
C3_AtomicCommit ==
  recvIdx >= 0 =>
    \/ dest[RecvName].content = before.content
    \/ dest[RecvName].content = target_file

HandshakeWrites(u) ==
  << WLine("main", "@RSYNCD: 27.0"), WLine("main", u.module) >>
    \o OptionLines(u.path) \o << WInt("main", 0) >>

InitTransfer ==
  /\ mainPc = "transfer"
  /\ url \in Urls
  /\ sent = HandshakeWrites(url)
  /\ srvRead = Len(sent)
  /\ motdSeen = 0
  /\ line = <<"@RSYNCD: ", "OK">>
  /\ lastRead = Read("io_errors", TRUE)
  /\ list = <<>>
  /\ name_scratch = <<>>
  /\ rec = NoRec
  /\ file_len = 0
  /\ sum_head = ZeroHead
  /\ remaining = 0
  /\ block_i = 0
  /\ protocol = MIN_PROTOCOL
  /\ rxEof = FALSE
  /\ enveloped = TRUE
  /\ seed = 1
  /\ \E raw \in RawLists : file_list \in recv_file_list(raw)
  /\ dest \in InitialDests
  /\ genPc = "entries"
  /\ genPos = 0
  /\ s2c = <<>>
  /\ srvOut = <<>>
  /\ srvSentinels = 0
  /\ srvRedo = 0
  /\ srvSent = <<>>
  /\ recvPc = "next"
  /\ phase = 0
  /\ recvIdx = -1
  /\ recvMsg = SentinelMsg
  /\ target_file = <<>>
  /\ copied = 0
  /\ processed = <<>>
  /\ before = Absent
  /\ statsRead = 0
  /\ result = "running"

NextTransfer ==
  \/ GenEntry
  \/ GenSentinel
  \/ GenIoError
  \/ RecvNext
  \/ RecvCreate
  \/ RecvCopy
  \/ RecvSetMtime
  \/ RecvIoError
  \/ ServerRead
  \/ ServerSend
  \/ ServerRedo
  \/ ReadStat
  \/ WriteFinal
  \/ Shutdown
  \/ TailIoError

\* The scheduling the runtime and the peer guarantee: each task that can
\* take a step eventually takes one, and so does the sender.  Failures of
\* the network or the disk are never owed.
FairSpec ==
  /\ InitTransfer
  /\ [][NextTransfer]_vars
  /\ WF_vars(GenEntry \/ GenSentinel)
  /\ WF_vars(RecvNext \/ RecvCreate \/ RecvCopy \/ RecvSetMtime)
  /\ WF_vars(ServerRead \/ ServerSend)

\* C5: with a sender that answers every request and bounded buffers in both
\* directions the transfer cannot deadlock: under fair scheduling of
\* generator, receiver and sender the join always ends, with both tasks
\* finished unless one of them failed.
C5_NoDeadlock ==
  (mainPc = "transfer") ~>
     \/ genPc = "done" /\ recvPc = "done"
     \/ mainPc \in {"failed", "panicked"}

C5_Witness ==
  /\ genPc = "done" /\ recvPc = "done"
  /\ Len(GenRequests) > BufCap
  /\ Len(processed) >= 2

\* C6: the generator handles every entry of the file list, then writes
\* exactly two -1 and ends; it writes no index after its first -1, and no
\* step of it takes anything off the connection.
C6_GeneratorShape ==
  /\ \A i, j \in DOMAIN GenWrites : i < j /\ IsSentinel(GenWrites[i]) => IsSentinel(GenWrites[j])
  /\ Len(GenSentinels) <= 2
  /\ Len(GenSentinels) > 0 => genPos = Len(file_list)
  /\ genPc = "done" <=> Len(GenSentinels) = 2
  /\ genPc = "phase2" => Len(GenSentinels) = 1

C6_GeneratorNeverReads ==
  [][ (genPos' # genPos \/ GenWrites' # GenWrites) => s2c' = s2c ]_vars

C6_Generator == []C6_GeneratorShape /\ C6_GeneratorNeverReads

C6_Witness ==
  /\ genPc = "done"
  /\ Len(GenRequests) >= 2
  /\ Len(GenSentinels) = 2

\* C7: the receiver's loop ends exactly when it has read its second -1:
\* the first -1 only moves the phase to 1, and every index of the file
\* list it reads, in either phase, is taken as the next file; an index
\* outside the list ends the loop by a panic, never by a normal return.
C7_ReceiverLoop ==
  LET n == Count(ConsumedIdx, -1)
  IN  /\ recvPc = "done" => n = 2 /\ ConsumedIdx[Len(ConsumedIdx)] = -1
      /\ n = 2 => recvPc = "done"
      /\ phase = IF n >= 1 THEN 1 ELSE 0
      /\ processed = SelectSeq(ConsumedIdx, Listed)
      /\ (\E i \in DOMAIN ConsumedIdx : ConsumedIdx[i] # -1 /\ ~Listed(ConsumedIdx[i]))
           => recvPc = "panic"

C7_Witness ==
  /\ recvPc = "done"
  /\ \E i, j \in DOMAIN ConsumedIdx : i < j /\ ConsumedIdx[i] = -1 /\ ConsumedIdx[j] >= 0
  /\ \E i \in DOMAIN ConsumedIdx : ConsumedIdx[i] >= 0 /\ \A j \in 1..i : ConsumedIdx[j] >= 0

\* C8: an Err of the generator or of the receiver ends the join at once:
\* the other task is cancelled unless it had finished, start_socket_client
\* returns that error, and from then on nothing is read, nothing is written
\* to the connection and nothing under the destination changes.
C8_FirstFailure ==
  (genPc = "err" \/ recvPc = "err") =>
    /\ mainPc = "failed"
    /\ result \notin {"running", "ok", "panic"}
    /\ genPc = "err" => recvPc \in {"cancelled", "done"}
    /\ recvPc = "err" => genPc \in {"cancelled", "done"}
    /\ statsRead = 0
    /\ MainSentinels = <<>>

C8_NothingAfterFailure ==
  [][ mainPc = "failed" =>
        /\ dest' = dest /\ sent' = sent /\ s2c' = s2c /\ statsRead' = statsRead ]_vars

C8_ErrorPropagation == []C8_FirstFailure /\ C8_NothingAfterFailure

C8_Witness ==
  /\ genPc = "err"
  /\ recvPc = "cancelled"
  /\ recvIdx >= 0
  /\ 0 < copied /\ copied < Len(target_file)
  /\ dest[RecvName].content = SubSeq(target_file, 1, copied)

\* C9: the statistics are read only after both tasks have finished, the
\* final -1 is written only after all three have been read, and a session
\* that ends well has written exactly three -1: two by the generator, then
\* one by start_socket_client as the last thing it wrote.
C9_FinalSentinel ==
  /\ statsRead > 0 => genPc = "done" /\ recvPc = "done"
  /\ statsRead <= 3
  /\ mainPc \in {"final", "shutdown", "done"} => statsRead = 3
  /\ Len(MainSentinels) <= 1
  /\ MainSentinels # <<>> =>
       /\ statsRead = 3
       /\ Count(ConsumedIdx, -1) = 2
       /\ IsSentinel(sent[Len(sent)]) /\ sent[Len(sent)].by = "main"
  /\ mainPc \in {"shutdown", "done"} => Len(MainSentinels) = 1
  /\ mainPc = "done" =>
       /\ result = "ok"
       /\ Len(SelectSeq(sent, IsSentinel)) = 3
       /\ Len(GenSentinels) = 2

C9_Witness ==
  /\ mainPc = "done"
  /\ Len(processed) >= 1
  /\ s2c = <<>>

\* C10: a server greeting whose major version is below 27 fails the
\* handshake with VersionTooOld, and the only thing the client has written
\* by then is its own greeting line.
C10_VersionTooOld ==
  /\ (protocol # 0 /\ protocol < 27) =>
        /\ result = "VersionTooOld"
        /\ mainPc = "failed"
        /\ sent = << WLine("main", "@RSYNCD: 27.0") >>
  /\ result = "VersionTooOld" => protocol # 0 /\ protocol < 27

C10_Witness ==
  /\ result = "VersionTooOld"
  /\ protocol = 26


\* The lines the client has written beyond its greeting and the module
\* name: the server options and everything after them.
AfterModule == SubSeq(sent, 3, Len(sent))

\* C11: in the MOTD drain a line starting with @ERROR fails the handshake
\* with ServerError, one starting with "@RSYNCD: AUTHREQD " fails it with
\* AuthRequired, one starting with "@RSYNCD: OK" ends the drain and is
\* followed by the server options, and any other line is forwarded and the
\* drain goes on; the options are written after an OK line only.
C11_MotdDrain ==
  /\ starts_with(line, <<"@ERROR">>) <=> result = "ServerError"
  /\ starts_with(line, <<"@RSYNCD: ", "AUTHREQD ">>) <=> result = "AuthRequired"
  /\ result \in {"ServerError", "AuthRequired"} =>
       mainPc = "failed" /\ AfterModule = <<>>
  /\ starts_with(line, <<"@RSYNCD: ", "OK">>) <=> Len(sent) > 2
  /\ Len(sent) > 2 =>
       /\ mainPc # "motd"
       /\ SubSeq(AfterModule, 1, Len(OptionLines(url.path))) = OptionLines(url.path)
  /\ (/\ line # EofLine
      /\ ~starts_with(line, <<"@ERROR">>)
      /\ ~starts_with(line, <<"@RSYNCD: ", "AUTHREQD ">>)
      /\ ~starts_with(line, <<"@RSYNCD: ", "OK">>)) =>
       /\ motdSeen >= 1
       /\ result \in {"running", "Network"}
       /\ result = "running" => mainPc = "motd"
       /\ AfterModule = <<>>

C11_Witness ==
  /\ result = "ServerError"
  /\ motdSeen = 1
  /\ sent = << WLine("main", "@RSYNCD: 27.0"), WLine("main", url.module) >>


\* The handshake with any request: a url with a module and a path, or the
\* bare host, whose path and module are both empty.
AllUrls == Urls \cup { [module |-> "", path |-> ""] }

InitAnyUrl ==
  /\ mainPc = "start"
  /\ url \in AllUrls
  /\ sent = <<>>
  /\ srvRead = 0
  /\ motdSeen = 0
  /\ line = <<>>
  /\ lastRead = Read("none", FALSE)
  /\ list = <<>>
  /\ name_scratch = <<>>
  /\ rec = NoRec
  /\ file_len = 0
  /\ sum_head = ZeroHead
  /\ remaining = 0
  /\ block_i = 0
  /\ protocol = 0
  /\ rxEof = FALSE
  /\ enveloped = FALSE
  /\ seed = 0
  /\ file_list = <<>>
  /\ dest = [n \in Names |-> Absent]
  /\ genPc = "idle"
  /\ genPos = 0
  /\ s2c = <<>>
  /\ srvOut = <<>>
  /\ srvSentinels = 0
  /\ srvRedo = 0
  /\ srvSent = <<>>
  /\ recvPc = "idle"
  /\ phase = 0
  /\ recvIdx = -1
  /\ recvMsg = SentinelMsg
  /\ target_file = <<>>
  /\ copied = 0
  /\ processed = <<>>
  /\ before = Absent
  /\ statsRead = 0
  /\ result = "running"

UrlSpec == InitAnyUrl /\ [][Next]_vars

IsPrefix(a, b) == Len(a) <= Len(b) /\ SubSeq(b, 1, Len(a)) = a

\* What the protocol has the client write during the handshake.
ExpectedGreeting == << WLine("main", "@RSYNCD: 27.0") >>
ExpectedModule == << WLine("main", url.module) >>
ExpectedOptions ==
  << WLine("main", "--server"), WLine("main", "--sender"), WLine("main", "-ltpr"),
     WLine("main", ".") >>
    \o (IF url.path = "" THEN <<>> ELSE << WLine("main", url.path) >>)
    \o << WLine("main", "") >>
ExpectedHandshake ==
  ExpectedGreeting \o ExpectedModule \o ExpectedOptions \o << WInt("main", 0) >>

\* The place of a read in the order the protocol fixes.
ReadRank(r) ==
  CASE r.what = "none" -> 0
    [] r.what = "greeting" -> 1
    [] r.what = "motd" -> 2
    [] r.what = "seed" -> 3
    [] r.what = "flist" -> 4
    [] r.what = "io_errors" -> 5
    [] r.what = "idx" -> 6
    [] r.what = "stat" -> 7

\* C12 (states): what the client has written and read at each point of the
\* handshake, and which reads were framed.
C12_Stages ==
  /\ IsPrefix(sent, ExpectedHandshake) \/ IsPrefix(ExpectedHandshake, sent)
  /\ mainPc = "start" => sent = <<>> /\ ReadRank(lastRead) = 0
  /\ mainPc = "greeting" => sent = ExpectedGreeting /\ ReadRank(lastRead) = 0
  /\ mainPc = "motd" =>
       sent = ExpectedGreeting \o ExpectedModule /\ ReadRank(lastRead) \in {1, 2}
  /\ mainPc = "seed" =>
       /\ sent = ExpectedGreeting \o ExpectedModule \o ExpectedOptions
       /\ ReadRank(lastRead) = 2
       /\ starts_with(line, <<"@RSYNCD: ", "OK">>)
  /\ ReadRank(lastRead) = 0 => Len(sent) <= 1
  /\ ReadRank(lastRead) = 1 => Len(sent) \in {1, 2}
  /\ ReadRank(lastRead) = 2 => Len(sent) < Len(ExpectedHandshake)
  /\ ReadRank(lastRead) >= 3 => IsPrefix(ExpectedHandshake, sent)
  /\ enveloped <=> ReadRank(lastRead) >= 3
  /\ lastRead.framed <=> ReadRank(lastRead) >= 4

\* C12 (steps): reads follow the fixed order, and the envelope is never
\* disengaged.
C12_Steps ==
  [][/\ ReadRank(lastRead') >= ReadRank(lastRead)
     /\ enveloped => enveloped']_vars

\* C12: the handshake runs in the fixed order greeting out, greeting in,
\* module out, MOTD until OK, options then the path when it is not empty
\* then an empty line, seed in, zero out, envelope engaged; the seed is the
\* last unframed read, every later read is framed, and the envelope stays
\* engaged.
C12_HandshakeOrder == []C12_Stages /\ C12_Steps

C12_Witness ==
  /\ url.path = ""
  /\ lastRead = Read("stat", TRUE)
  /\ mainPc = "done"


\* C13: once the receiver has committed a file (content copied, mtime step
\* done), the destination's modification time is the entry's at whole
\* seconds, whatever the basis's was.
C13_MtimeSet ==
  (recvIdx >= 0 /\ recvPc \in {"next", "done"} /\ result \in {"running", "ok"}) =>
    /\ dest[RecvName].kind = "file"
    /\ dest[RecvName].mtime \div TicksPerSec = file_list[recvIdx + 1].modify_time \div TicksPerSec

C13_Witness ==
  /\ recvIdx >= 0
  /\ recvPc = "next"
  /\ before.kind = "file"
  /\ before.mtime \div TicksPerSec # file_list[recvIdx + 1].modify_time \div TicksPerSec
  /\ dest[RecvName].mtime = file_list[recvIdx + 1].modify_time


\* The file list on its own: the state handshake_done leaves, and the
\* decoding of the list from there.
InitList ==
  /\ mainPc = "flist"
  /\ url \in Urls
  /\ sent = HandshakeWrites(url)
  /\ srvRead = 0
  /\ motdSeen = 0
  /\ line = <<"@RSYNCD: ", "OK">>
  /\ lastRead = Read("seed", FALSE)
  /\ list = <<>>
  /\ name_scratch = <<>>
  /\ rec = NoRec
  /\ file_len = 0
  /\ sum_head = ZeroHead
  /\ remaining = 0
  /\ block_i = 0
  /\ protocol = MIN_PROTOCOL
  /\ rxEof = FALSE
  /\ enveloped = TRUE
  /\ seed = 1
  /\ file_list = <<>>
  /\ dest = [n \in Names |-> Absent]
  /\ genPc = "idle"
  /\ genPos = 0
  /\ s2c = <<>>
  /\ srvOut = <<>>
  /\ srvSentinels = 0
  /\ srvRedo = 0
  /\ srvSent = <<>>
  /\ recvPc = "idle"
  /\ phase = 0
  /\ recvIdx = -1
  /\ recvMsg = SentinelMsg
  /\ target_file = <<>>
  /\ copied = 0
  /\ processed = <<>>
  /\ before = Absent
  /\ statsRead = 0
  /\ result = "running"

NextList ==
  \/ RecvFileEntry
  \/ RecvFileListEnd

ListSpec == InitList /\ [][NextList]_vars

\* Byte-wise order of names: at the first position where they differ, the
\* smaller byte or the end of the name comes first.
ByteLess(a, b) ==
  \E k \in 1..Len(b) :
    /\ k <= Len(a) + 1
    /\ SubSeq(a, 1, k - 1) = SubSeq(b, 1, k - 1)
    /\ k > Len(a) \/ a[k] < b[k]

\* C14: a decoded file list is strictly ascending by the byte-wise order of
\* names, every entry's idx is its position counted from 0, and the list
\* holds exactly the names that were received.
C14_SortedDense ==
  /\ \A i \in 1..Len(file_list) : file_list[i].idx = i - 1
  /\ \A i \in 1..(Len(file_list) - 1) : ByteLess(file_list[i].name, file_list[i + 1].name)
  /\ mainPc = "io_errors" =>
       {file_list[i].name : i \in 1..Len(file_list)} = {list[i].name : i \in 1..Len(list)}

C14_Witness ==
  /\ mainPc = "io_errors"
  /\ Len(list) = 2
  /\ Len(file_list) = 2
  /\ list[1].name = file_list[2].name
  /\ list[2].name = file_list[1].name


\* C15 as stated: during the transfer no step of the generator changes
\* anything under the destination.
C15_OnlyReceiverWrites ==
  [][genPos' # genPos => dest' = dest]_vars

\* C15, amended: regular files under the destination are created and
\* changed by the receiver only, while it commits that file; the only
\* thing a generator step does under the destination is to create the
\* directory of the directory entry it is handling, where nothing existed.
C15_FilesOnlyByReceiver ==
  [][\A n \in Names :
       dest'[n] # dest[n] =>
         IF genPos' # genPos
           THEN /\ dest[n].kind = "absent"
                /\ dest'[n].kind = "dir"
                /\ file_list[genPos + 1].name = n
                /\ is_dir(file_list[genPos + 1].mode)
           ELSE /\ recvPc \in {"create", "copy", "mtime"}
                /\ n = RecvName
                /\ dest'[n].kind = "file"]_vars

C15_Witness ==
  /\ dest[<<1>>].kind = "dir"
  /\ dest[<<2>>].kind = "file"
  /\ dest[<<2>>].content # <<>>
  /\ recvPc = "done"
  /\ genPc = "done"


\* What the generator wrote in a step.
Written == SubSeq(sent', Len(sent) + 1, Len(sent'))

\* The policy's skip test for a regular-file entry against what the
\* destination path holds: it exists, is a regular file, and has the
\* entry's size and, at whole seconds, the entry's mtime.
UpToDate(entry, f) ==
  /\ f.kind = "file"
  /\ Len(f.content) = entry.len
  /\ f.mtime \div TicksPerSec = entry.modify_time \div TicksPerSec

\* C16: whenever the generator handles an entry without failing, it writes
\* nothing for a directory, for a non-regular entry and for a regular file
\* that is up to date, and otherwise exactly one record: the entry's idx
\* with the zero SumHead and no checksums when the destination does not
\* exist, else with a SumHead followed by checksum_count checksum pairs.
C16_Policy ==
  [][(genPos' = genPos + 1 /\ genPc' # "err") =>
       LET entry == file_list[genPos + 1]
           f == dest[entry.name]
       IN  IF ~is_file(entry.mode) \/ UpToDate(entry, f)
             THEN Written = <<>>
             ELSE /\ Len(Written) = 1
                  /\ Written[1].kind = "request"
                  /\ Written[1].n = entry.idx
                  /\ Len(Written[1].sums) = Written[1].head.checksum_count
                  /\ f.kind = "absent" <=> Written[1].head = ZeroHead]_vars


\* ---------------------------------------------------------------------
\* generate_and_send_sums on basis files of every length: the SumHead is
\* computed and written, then one block is summed per step.

MaxFileLen == 1401

\* Lengths up to two blocks of the minimum size, and lengths whose square
\* root exceeds the minimum block size.
FileLens == 0..MaxFileLen \union {490000, 490001, 495616}

InitSum ==
  /\ mainPc = "transfer"
  /\ url \in Urls
  /\ sent = HandshakeWrites(url)
  /\ srvRead = 0
  /\ motdSeen = 0
  /\ line = <<"@RSYNCD: ", "OK">>
  /\ lastRead = Read("io_errors", TRUE)
  /\ list = <<>>
  /\ name_scratch = <<>>
  /\ rec = NoRec
  /\ file_len \in FileLens
  /\ sum_head = ZeroHead
  /\ remaining = 0
  /\ block_i = 0
  /\ protocol = MIN_PROTOCOL
  /\ rxEof = FALSE
  /\ enveloped = TRUE
  /\ seed = 1
  /\ file_list = <<>>
  /\ dest = [n \in Names |-> Absent]
  /\ genPc = "entries"
  /\ genPos = 0
  /\ s2c = <<>>
  /\ srvOut = <<>>
  /\ srvSentinels = 0
  /\ srvRedo = 0
  /\ srvSent = <<>>
  /\ recvPc = "idle"
  /\ phase = 0
  /\ recvIdx = -1
  /\ recvMsg = SentinelMsg
  /\ target_file = <<>>
  /\ copied = 0
  /\ processed = <<>>
  /\ before = Absent
  /\ statsRead = 0
  /\ result = "running"

\* The SumHead is computed from the file's length and written.
SumSizes ==
  /\ sum_head = ZeroHead
  /\ sum_head' = sum_sizes_sqroot(file_len)
  /\ remaining' = file_len
  /\ block_i' = 0
  /\ UNCHANGED << mainPc, url, sent, srvRead, motdSeen, line, lastRead, flVars, file_len, hsVars,
                  dest, genVars, srvVars, recvVars, statsRead, result >>

\* One turn of the checksum loop: min(block_len, remaining) bytes are
\* read and summed.
SumBlock ==
  /\ sum_head # ZeroHead
  /\ block_i < sum_head.checksum_count
  /\ remaining' = remaining - Min(sum_head.block_len, remaining)
  /\ block_i' = block_i + 1
  /\ UNCHANGED << mainPc, url, sent, srvRead, motdSeen, line, lastRead, flVars, file_len, sum_head,
                  hsVars, dest, genVars, srvVars, recvVars, statsRead, result >>

NextSum ==
  \/ SumSizes
  \/ SumBlock

SumSpec == InitSum /\ [][NextSum]_vars

\* C17 (as stated): for any SumHead the generator emits with
\* checksum_count > 0, (checksum_count - 1) * block_len + remainder_len is
\* the basis file's length, with 0 < remainder_len <= block_len when
\* remainder_len is non-zero, and remainder_len = 0 only when block_len
\* divides the length.
C17_SumHeadLength ==
  (sum_head # ZeroHead /\ sum_head.checksum_count > 0) =>
    /\ (sum_head.checksum_count - 1) * sum_head.block_len + sum_head.remainder_len = file_len
    /\ sum_head.remainder_len # 0 =>
         (0 < sum_head.remainder_len /\ sum_head.remainder_len <= sum_head.block_len)
    /\ sum_head.remainder_len = 0 => file_len % sum_head.block_len = 0

\* The length of the last block a SumHead describes.
last_block_len(head) ==
  IF head.remainder_len = 0 THEN head.block_len ELSE head.remainder_len

\* C17 (amended): for any SumHead the generator emits with
\* checksum_count > 0, (checksum_count - 1) * block_len plus the last
\* block's length is the basis file's length, where the last block's
\* length is remainder_len when that is non-zero and block_len when it is
\* zero; 0 < remainder_len < block_len when non-zero; remainder_len = 0
\* exactly when block_len divides the length; and the checksum loop's
\* checksum_count reads cover the file exactly.
C17_SumHeadCoversFile ==
  (sum_head # ZeroHead /\ sum_head.checksum_count > 0) =>
    /\ (sum_head.checksum_count - 1) * sum_head.block_len + last_block_len(sum_head) = file_len
    /\ sum_head.remainder_len # 0 =>
         (0 < sum_head.remainder_len /\ sum_head.remainder_len < sum_head.block_len)
    /\ sum_head.remainder_len = 0 <=> file_len % sum_head.block_len = 0
    /\ block_i = sum_head.checksum_count => remaining = 0
    /\ block_i < sum_head.checksum_count => remaining > 0

\* C17 witness: a file of exactly two minimum-size blocks has been summed
\* to its end.
C17_Witness ==
  /\ file_len = 2 * BLOCK_SIZE
  /\ sum_head.checksum_count = 2
  /\ sum_head.remainder_len = 0
  /\ block_i = 2
  /\ remaining = 0


\* The length the specification gives a Copied(block_index) token under a
\* SumHead.
copied_len(head, block_index) ==
  IF block_index = head.checksum_count - 1 /\ head.remainder_len # 0
    THEN head.remainder_len ELSE head.block_len

\* C18: for every Copied(block_index) token of a file the receiver has
\* read, under the SumHead it read for that file and in every build, the
\* length is remainder_len if and only if block_index = checksum_count - 1
\* and remainder_len # 0, and block_len otherwise, computed without
\* wrap-around and without abort; the all-zero SumHead included.
C18_CopiedLength ==
  recvIdx >= 0 =>
    \A i \in DOMAIN recvMsg.tokens :
      recv_token(recvMsg.tokens[i]).t = "Copied" =>
        \A overflow_checks \in BOOLEAN :
          data_len(recvMsg.head, recv_token(recvMsg.tokens[i]).block, overflow_checks)
            = [panic |-> FALSE, wrapped |-> FALSE,
               len |-> copied_len(recvMsg.head, recv_token(recvMsg.tokens[i]).block)]


\* The token loop reaches a Copied token of msg: one is preceded by Data
\* tokens only.
CopiedArrives(msg) ==
  \E i \in DOMAIN msg.tokens :
    /\ recv_token(msg.tokens[i]).t = "Copied"
    /\ \A j \in 1..(i - 1) : recv_token(msg.tokens[j]).t = "Data"

\* C19: when a Copied token arrives for a file whose destination does not
\* exist, the receiver task ends with the error MissingBasis, the session's
\* result is that error, and nothing is created at the destination path.
C19_MissingBasis ==
  (recvIdx >= 0 /\ before.kind = "absent" /\ CopiedArrives(recvMsg)) =>
    /\ recvPc = "err"
    /\ result = "MissingBasis"
    /\ dest[file_list[recvIdx + 1].name].kind = "absent"


\* C20: for every record the decoder has read that passes the length bound
\* inherit_len + suffix_len <= 4096, inherit_len is at most the length of
\* the scratch buffer holding the previous entry's name (0 before the first
\* entry), a record that reuses the previous entry's mtime or mode has a
\* previous entry, and the decoder has not aborted for want of something to
\* inherit from.
C20_InheritInvariant ==
  rec.inherit_name_len + rec.name_len <= PATH_MAX =>
    /\ rec.inherit_name_len <= rec.scratch_len
    /\ (rec.same_time \/ rec.same_mode) => rec.has_prev
    /\ mainPc # "panicked"


\* ---------------------------------------------------------------------
\* start_socket_client up to the join: the handshake, the file list and
\* io_errors.
NextHandshake ==
  \/ SendGreeting
  \/ ReadGreeting
  \/ ReadMotdLine
  \/ handshake_done
  \/ RecvFileList
  \/ ReadIoErrors
  \/ HandshakeIoError

\* The client runs on: whenever its next statement can complete (the
\* peer has sent the line it waits for, or has closed), it completes.
\* Failures of the network are never owed.
HandshakeSpec ==
  /\ InitAnyUrl
  /\ [][NextHandshake]_vars
  /\ WF_vars(SendGreeting \/ ReadGreeting \/ ReadMotdLine \/ handshake_done
               \/ RecvFileList \/ ReadIoErrors)

\* C21: if the server closes the connection during the MOTD drain before
\* an OK, @ERROR or AUTHREQD line, the handshake terminates with an error
\* instead of reading end-of-stream again and again.
C21_EofEndsHandshake ==
  (mainPc = "motd" /\ rxEof) ~> (mainPc = "failed")


\* The receiver reads a file index that is neither -1 nor one of the list.
ReadsBadIndex ==
  /\ mainPc = "transfer"
  /\ recvPc = "next"
  /\ s2c # <<>>
  /\ Head(s2c).kind = "file"
  /\ Head(s2c).idx \notin -1..(Len(file_list) - 1)
  /\ s2c' = Tail(s2c)

\* C22: when the receiver reads a file index that is neither -1 nor within
\* 0..N-1 for a list of N entries, the receiver task ends with a failure
\* result, the join propagates it as the session's failure, and the
\* destination is left as it was.
C22_BadIndexFails ==
  [][ReadsBadIndex =>
       /\ recvPc' = "err"
       /\ mainPc' = "failed"
       /\ result' \notin {"running", "panic"}
       /\ dest' = dest]_vars

=============================================================================
